---- MODULE Spec2Model ----
(***************************************************************************)
(* Model of the ESG PDF analyzer: pdf_extractor.py (vector-text path,      *)
(* spatial consolidation, OCR fallback), semantic_search/search.py         *)
(* (relevance scoring) and the /upload handler of app.py.                  *)
(*                                                                         *)
(* Four specifications share the module:                                   *)
(*   SpecFilter   filter_spatially_close_bboxes and the box merge          *)
(*   SpecSearch   SemanticSearchESG.run_semantic_search                    *)
(*   SpecExtract  extract_esg_pdf_sentences on one document                *)
(*   Spec         concurrent /upload requests                              *)
(* Each specification parks the variables of the other three.              *)
(*                                                                         *)
(* Numbers: coordinates are integers (points or pixels).  A vertical       *)
(* centre (y0+y1)/2 is kept doubled, y0+y1, so that halves stay exact.     *)
(* The OCR path divides; its coordinates are exact fractions [n, d].       *)
(* Cosine similarities are integers in hundredths.                         *)
(***************************************************************************)
EXTENDS Integers, Sequences, FiniteSets, TLC

VARIABLES
    \* ---- SpecFilter: one call of filter_spatially_close_bboxes
    f_pc,               \* "call", "filtered", "merged" ("idle" when parked)
    f_bboxes,           \* the argument bboxes: the candidate boxes of a sentence
    f_result,           \* the list the filter returns
    f_merged,           \* (x0, y0, x1, y1) of lines 133-136, <<>> if none
    \* ---- SpecSearch: the SemanticSearchESG object and a call of its search
    s_pc,               \* "ready", "done" ("idle" when parked)
    heap,               \* the dict objects, an object's id its position
    extracted_chunks,   \* the argument: a list of object ids
    s_input,            \* the dicts of the argument as they were at the call
    embedder,           \* text -> cosine similarity to each keyword vector
    keyword_embeddings, \* self.keyword_embeddings: the keyword vectors' ids
    threshold,          \* self.similarity_threshold, in hundredths
    s_results,          \* the returned list of object ids
    s_first,            \* threshold and result of the first of two scorers
    \* ---- SpecExtract: extract_esg_pdf_sentences on one document
    e_pc,               \* "lines", "sentences", "ocr", "done"
    doc_pages,          \* (page.rect.width, page.rect.height) of each page
    page_idx,           \* page_idx of the running page loop (0-based)
    bulk,               \* the page's flow-text buffer
    indices,            \* the page's index entries (start_pos, end_pos, bbox)
    seen_lines,         \* the lines of the page iterated so far (history)
    n_lines,            \* the number of lines iterated in the document
    sents,              \* the sentences of sent_tokenize(bulk) still to map
    results,            \* results of extract_pdf_regions
    last_map,           \* sent_start, sent_end and the collected index
                        \* positions of the sentence mapped last (history)
    ocr_started,        \* ocr_fallback_regions has been called
    pix,                \* (pix.width, pix.height) of the page being read by OCR
    n_words,            \* the number of OCR rows iterated in the document
    gathered,           \* gathered of ocr_fallback_regions
    regions,            \* regions of extract_esg_pdf_sentences
    ret_kind,           \* its return: "pending", "list" (regions) or "None"
    \* ---- Spec: the /upload route under concurrent requests
    req,                \* per request: position, upload, locals, response
    fs                  \* the upload folder: path -> content ("absent" if none)

varsFilter == <<f_pc, f_bboxes, f_result, f_merged>>
varsSearch == <<s_pc, heap, extracted_chunks, s_input, embedder, keyword_embeddings,
                threshold, s_results, s_first>>
varsExtract == <<e_pc, doc_pages, page_idx, bulk, indices, seen_lines, n_lines, sents,
                 results, last_map, ocr_started, pix, n_words, gathered, regions,
                 ret_kind>>
varsPipe == <<req, fs>>
vars == <<varsFilter, varsSearch, varsExtract, varsPipe>>

\* ------------------------------------------------------------------ helpers

Abs(x) == IF x < 0 THEN -x ELSE x

Min(S) == CHOOSE m \in S : \A o \in S : m <= o

Max(S) == CHOOSE m \in S : \A o \in S : m >= o

Range(q) == {q[i] : i \in DOMAIN q}

\* All sequences over S of length 0..n.
SeqUpTo(S, n) == UNION {[1..k -> S] : k \in 0..n}

\* ------------------------------------------------- spatial consolidation

\* A bbox is the tuple (x0, y0, x1, y1); Python's bbox[1], bbox[3] are
\* b[2], b[4] here.
max_vertical_distance == 50

\* Python's sorted() on a list of numbers: insertion into a sorted prefix.
RECURSIVE insert_sorted(_, _)
insert_sorted(q, v) ==
    IF q = <<>> THEN <<v>>
    ELSE IF v < Head(q) THEN <<v>> \o q
    ELSE <<Head(q)>> \o insert_sorted(Tail(q), v)

RECURSIVE sorted(_)
sorted(q) == IF q = <<>> THEN <<>> ELSE insert_sorted(sorted(Tail(q)), Head(q))

\* y_positions = [(bbox[1] + bbox[3]) / 2 ...], doubled.
y_positions(bboxes) == [i \in DOMAIN bboxes |-> bboxes[i][2] + bboxes[i][4]]

\* A slip of the index: the lower middle element, sorted(..)[(len - 1) // 2].
median_y_lower(bboxes) ==
    sorted(y_positions(bboxes))[((Len(bboxes) - 1) \div 2) + 1]

\* median_y = sorted(y_positions)[len(y_positions) // 2], doubled (0-based index
\* len // 2 is position len \div 2 + 1 here).
median_y(bboxes) == sorted(y_positions(bboxes))[(Len(bboxes) \div 2) + 1]

\* The comprehension's condition, abs(centre - median_y) < max_vertical_distance,
\* on doubled values.
is_close(bbox, m) == Abs((bbox[2] + bbox[4]) - m) < 2 * max_vertical_distance

\* A slip: the single-box and the empty case folded into one early return.
filter_no_single(bboxes) ==
    IF Len(bboxes) <= 1 THEN <<>>
    ELSE LET m == median_y(bboxes)
             filtered == SelectSeq(bboxes, LAMBDA b : is_close(b, m))
         IN  IF filtered # <<>> THEN filtered ELSE bboxes

filter_spatially_close_bboxes(bboxes) ==
    IF bboxes = <<>> THEN <<>>
    ELSE IF Len(bboxes) = 1 THEN bboxes
    ELSE LET m == median_y(bboxes)
             filtered == SelectSeq(bboxes, LAMBDA b : is_close(b, m))
         IN  IF filtered # <<>> THEN filtered ELSE bboxes

\* Lines 126-128 of extract_pdf_regions: the filter is applied only to two or
\* more overlapping boxes.
prune_overlap(overlap_bboxes) ==
    IF Len(overlap_bboxes) > 1 THEN filter_spatially_close_bboxes(overlap_bboxes)
    ELSE overlap_bboxes

\* Lines 133-136: the combined bounding box of a non-empty list.
combined_bbox(bs) ==
    << Min({bs[i][1] : i \in DOMAIN bs}), Min({bs[i][2] : i \in DOMAIN bs}),
       Max({bs[i][3] : i \in DOMAIN bs}), Max({bs[i][4] : i \in DOMAIN bs}) >>

\* Lines 121-136: no box for an empty list (<<>>, the sentence is skipped), else
\* one merged box.
sentence_bbox(overlap_bboxes) ==
    IF overlap_bboxes = <<>> THEN <<>>
    ELSE combined_bbox(prune_overlap(overlap_bboxes))

\* ---- SpecFilter: the filter and the merge on drawn candidate lists.

MaxBoxes == 3

\* Candidate line boxes with vertical centres 100, 102, 149.5, 150, 180, 500.
FilterBoxes ==
    { <<10, 95, 60, 105>>, <<20, 97, 90, 107>>, <<10, 145, 60, 154>>,
      <<10, 145, 70, 155>>, <<5, 175, 60, 185>>, <<10, 495, 80, 505>> }

IdleFilter ==
    /\ f_pc = "idle"
    /\ f_bboxes = <<>>
    /\ f_result = <<>>
    /\ f_merged = <<>>

InitFilter ==
    /\ f_pc = "call"
    /\ f_bboxes \in SeqUpTo(FilterBoxes, MaxBoxes)
    /\ f_result = <<>>
    /\ f_merged = <<>>

\* filter_spatially_close_bboxes(bboxes) called directly.
FilterCall ==
    /\ f_pc = "call"
    /\ f_result' = filter_spatially_close_bboxes(f_bboxes)
    /\ f_pc' = "filtered"
    /\ UNCHANGED <<f_bboxes, f_merged>>
    /\ UNCHANGED <<varsSearch, varsExtract, varsPipe>>

\* The per-sentence consolidation of lines 121-136 on the same candidates.
Consolidate ==
    /\ f_pc = "filtered"
    /\ f_merged' = sentence_bbox(f_bboxes)
    /\ f_pc' = "merged"
    /\ UNCHANGED <<f_bboxes, f_result>>
    /\ UNCHANGED <<varsSearch, varsExtract, varsPipe>>

NextFilter == FilterCall \/ Consolidate

\* ------------------------------------------------------ relevance scoring

\* len(self.esg_keywords): the thirteen default ESG keywords.
NumKeywords == 13

\* SemanticSearchESG(similarity_threshold=0.4) of app.py, in hundredths.
similarity_threshold == 40

\* A dict is a function from its keys; d[key] = val on a dict.
set_item(d, key, val) == (key :> val) @@ d

\* A slip: the chunk is not copied, results alias the caller's dicts.
copy_alias(h, id) == [heap |-> h, id |-> id]

\* dict.copy(): a new object with the same items.  The heap is the sequence of
\* live dicts, an object's identity its position.
copy(h, id) == [heap |-> Append(h, h[id]), id |-> Len(h) + 1]

\* create_embeddings followed by cosine_similarity against the keyword
\* embeddings: the embedding model is a function of the text alone, emb[text][kw]
\* the cosine of the text's vector and keyword vector kw.
create_embeddings(h, chunks, emb) == [i \in DOMAIN chunks |-> emb[h[chunks[i]]["text"]]]

\* sims = cosine_similarity(sentence_emb, self.keyword_embeddings).flatten()
sims_of(sentence_emb, kws) == [k \in DOMAIN kws |-> sentence_emb[kws[k]]]

\* np.max(sims)
np_max(sims) == Max(Range(sims))

\* A slip of the comparison: the test inverted.
passes_inverted(max_sim, thr) == max_sim <= thr

\* max_sim >= self.similarity_threshold
passes(max_sim, thr) == max_sim >= thr

\* The loop of lines 54-62 from index idx on (1-based here).
RECURSIVE search_loop(_, _, _, _, _, _, _)
search_loop(h, chunks, embeddings, kws, thr, idx, acc) ==
    IF idx > Len(chunks) THEN [heap |-> h, results |-> acc]
    ELSE LET max_sim == np_max(sims_of(embeddings[idx], kws))
         IN  IF passes(max_sim, thr)
             THEN LET c == copy(h, chunks[idx])
                      h2 == [c.heap EXCEPT ![c.id] = set_item(@, "similarity", max_sim)]
                  IN  search_loop(h2, chunks, embeddings, kws, thr, idx + 1,
                                  Append(acc, c.id))
             ELSE search_loop(h, chunks, embeddings, kws, thr, idx + 1, acc)

\* run_semantic_search(extracted_chunks) on heap h: the heap after the call and
\* the returned list of object ids.
run_semantic_search(h, chunks, emb, kws, thr) ==
    IF chunks = <<>> THEN [heap |-> h, results |-> <<>>]
    ELSE search_loop(h, chunks, create_embeddings(h, chunks, emb), kws, thr, 1, <<>>)

\* The dicts a list of references points to.
Deref(h, ids) == [i \in DOMAIN ids |-> h[ids[i]]]

\* ---- SpecSearch: two scorers with their own thresholds on one input.

MaxChunks == 2

Texts == {"t1", "t2"}

\* One text's similarities to the keywords: hi for keyword p, lo for the others.
SimRow(p, hi, lo) == [k \in 1..NumKeywords |-> IF k = p THEN hi ELSE lo]

SimRows == { SimRow(1, 39, 10), SimRow(13, 40, -5), SimRow(7, 90, 40),
             SimRow(3, -20, -30) }

Thresholds == {30, similarity_threshold, 60}

ChunkDicts == { [page |-> p, type |-> "sentence", text |-> t] : p \in 1..2, t \in Texts }

\* No call of run_semantic_search is followed step by step.
IdleSearchCall ==
    /\ s_pc = "idle"
    /\ heap = <<>>
    /\ extracted_chunks = <<>>
    /\ s_input = <<>>
    /\ s_results = <<>>
    /\ s_first = [set |-> FALSE, threshold |-> 0, results |-> <<>>]

IdleSearch ==
    /\ IdleSearchCall
    /\ embedder = <<>>
    /\ keyword_embeddings = <<>>
    /\ threshold = similarity_threshold

\* SemanticSearchESG.__init__ has run; the caller holds a list of chunk dicts.
InitSearch ==
    /\ s_pc = "ready"
    /\ heap \in SeqUpTo(ChunkDicts, MaxChunks)
    /\ extracted_chunks = [i \in DOMAIN heap |-> i]
    /\ s_input = heap
    /\ embedder \in [Texts -> SimRows]
    /\ keyword_embeddings = [k \in 1..NumKeywords |-> k]
    /\ threshold \in Thresholds
    /\ s_results = <<>>
    /\ s_first = [set |-> FALSE, threshold |-> 0, results |-> <<>>]

\* semantic_search.run_semantic_search(extracted_chunks)
RunSearch ==
    /\ s_pc = "ready"
    /\ LET out == run_semantic_search(heap, extracted_chunks, embedder,
                                      keyword_embeddings, threshold)
       IN  /\ heap' = out.heap
           /\ s_results' = out.results
    /\ s_pc' = "done"
    /\ UNCHANGED <<extracted_chunks, s_input, embedder, keyword_embeddings, threshold,
                   s_first>>
    /\ UNCHANGED <<varsFilter, varsExtract, varsPipe>>

\* A second scorer, SemanticSearchESG(similarity_threshold=t), is given the same
\* chunks; the first scorer's threshold and result are remembered.
Reconfigure ==
    /\ s_pc = "done"
    /\ ~s_first.set
    /\ \E t \in Thresholds : threshold' = t
    /\ s_first' = [set |-> TRUE, threshold |-> threshold, results |-> Deref(heap, s_results)]
    /\ s_results' = <<>>
    /\ s_pc' = "ready"
    /\ UNCHANGED <<heap, extracted_chunks, s_input, embedder, keyword_embeddings>>
    /\ UNCHANGED <<varsFilter, varsExtract, varsPipe>>

NextSearch == RunSearch \/ Reconfigure

\* ------------------------------------------------------- text extraction

\* Text is a sequence of characters.  The alphabet: "a" a lower-case letter,
\* "A" an upper-case letter, "." a full stop, " " white space.

\* str.strip(): leading and trailing white space removed.
RECURSIVE lstrip(_)
lstrip(t) == IF t # <<>> /\ Head(t) = " " THEN lstrip(Tail(t)) ELSE t

RECURSIVE rstrip(_)
rstrip(t) ==
    IF t # <<>> /\ t[Len(t)] = " " THEN rstrip(SubSeq(t, 1, Len(t) - 1)) ELSE t

strip(t) == rstrip(lstrip(t))

\* str.isupper(): at least one cased character and no lower-case one.
isupper(t) == (\E i \in DOMAIN t : t[i] = "A") /\ (\A i \in DOMAIN t : t[i] # "a")

\* " ".join(parts)
RECURSIVE join(_)
join(parts) ==
    IF parts = <<>> THEN <<>>
    ELSE IF Len(parts) = 1 THEN parts[1]
    ELSE parts[1] \o <<" ">> \o join(Tail(parts))

\* str.find(sub): the first 0-based offset of sub, -1 if there is none.
find(text, sub) ==
    LET hits == {i \in 0..(Len(text) - Len(sub)) : SubSeq(text, i + 1, i + Len(sub)) = sub}
    IN  IF hits = {} THEN -1 ELSE Min(hits)

\* nltk's sent_tokenize (Punkt) on this alphabet: a sentence ends at a full stop
\* followed by white space; the sentences are slices of the text, returned
\* without the white space between them.
RECURSIVE sent_tokenize(_)
sent_tokenize(text) ==
    LET t == strip(text)
        ends == {i \in 1..(Len(t) - 1) : t[i] = "." /\ t[i + 1] = " "}
    IN  IF t = <<>> THEN <<>>
        ELSE IF ends = {} THEN <<t>>
        ELSE <<SubSeq(t, 1, Min(ends))>> \o sent_tokenize(SubSeq(t, Min(ends) + 1, Len(t)))

\* A slip: the case test dropped.
is_heading_size_only(text, size) == size > 16

\* is_heading(text, size)
is_heading(text, size) == isupper(text) /\ size > 16

\* The spans of a line with non-blank text (span["text"].strip() is truthy).
nonblank_spans(line) == SelectSeq(line.spans, LAMBDA sp : strip(sp.text) # <<>>)

\* sizes = [span["size"] for span in line["spans"] if span["text"].strip()]
sizes_of(line) == [i \in DOMAIN nonblank_spans(line) |-> nonblank_spans(line)[i].size]

\* line_txt = " ".join(span["text"].strip() for span in ... if span["text"].strip())
line_txt(line) ==
    join([i \in DOMAIN nonblank_spans(line) |-> strip(nonblank_spans(line)[i].text)])

\* The heading dict of lines 88-100.
heading_region(pno, txt, bbox, page_w, page_h, fsize) ==
    [page |-> pno + 1, type |-> "heading", text |-> strip(txt),
     coords |-> [x0 |-> bbox[1], y0 |-> bbox[2], x1 |-> bbox[3], y1 |-> bbox[4]],
     page_dimensions |-> [width |-> page_w, height |-> page_h],
     font_size |-> fsize]

\* The sentence dict of lines 140-151.
sentence_region(pno, sent, box, page_w, page_h) ==
    [page |-> pno + 1, type |-> "sentence", text |-> strip(sent),
     coords |-> [x0 |-> box[1], y0 |-> box[2], x1 |-> box[3], y1 |-> box[4]],
     page_dimensions |-> [width |-> page_w, height |-> page_h]]

\* The condition of the comprehension of lines 118-119 on an index entry
\* (s, e, bbox): not (e < sent_start or s > sent_end).
overlaps(s, e, sent_start, sent_end) == ~(e < sent_start \/ s > sent_end)

\* The positions of the index entries the comprehension collects, in order.
overlap_positions(idx, sent_start, sent_end) ==
    SelectSeq([i \in DOMAIN idx |-> i],
              LAMBDA i : overlaps(idx[i][1], idx[i][2], sent_start, sent_end))

\* A fraction n/d with d > 0, and its order.
Frac(n, d) == [n |-> n, d |-> d]

FracLeq(a, b) == a.n * b.d <= b.n * a.d

\* A slip: the vertical axis scaled but not flipped to the bottom-left origin.
ocr_coords_no_flip(w, page_w, page_h, raster) ==
    [x0 |-> Frac(w.left * page_w, raster[1]),
     y0 |-> Frac((w.top + w.height) * page_h, raster[2]),
     x1 |-> Frac((w.left + w.width) * page_w, raster[1]),
     y1 |-> Frac(w.top * page_h, raster[2])]

\* Lines 188-195: sx = page_w / pix.width, sy = page_h / pix.height,
\* pdf_x0 = x * sx, pdf_y0 = page_h - (y + h) * sy, pdf_x1 = (x + w) * sx,
\* pdf_y1 = page_h - y * sy, as exact fractions over pix.width and pix.height.
ocr_coords(w, page_w, page_h, raster) ==
    [x0 |-> Frac(w.left * page_w, raster[1]),
     y0 |-> Frac(page_h * raster[2] - (w.top + w.height) * page_h, raster[2]),
     x1 |-> Frac((w.left + w.width) * page_w, raster[1]),
     y1 |-> Frac(page_h * raster[2] - w.top * page_h, raster[2])]

\* The dict of lines 199-211; font_size is None.
ocr_region(pno, w, page_w, page_h, raster) ==
    [page |-> pno + 1, type |-> "sentence", text |-> strip(w.text),
     coords |-> ocr_coords(w, page_w, page_h, raster),
     page_dimensions |-> [width |-> page_w, height |-> page_h],
     font_size |-> "None"]

\* A slip: only sentence regions count as extracted text.
no_regions_sentences(rs) == \A i \in DOMAIN rs : rs[i].type # "sentence"

\* "if not regions" in extract_esg_pdf_sentences.
no_regions(rs) == rs = <<>>

\* ---- SpecExtract: extract_esg_pdf_sentences on one document.

\* Pages of the document, lines and OCR rows read from the whole document.
MaxPages == 2

MaxLines == 2

MaxWords == 2

\* page.rect.width, page.rect.height
PageSizes == { <<200, 300>>, <<300, 200>> }

Span(text, size) == [text |-> text, size |-> size]

\* line["spans"] of the lines a page can hold: a blank line, a heading, flow text
\* without and with a sentence end, a two-span line with a large font.
LineSpans ==
    { << Span(<<" ">>, 18) >>,
      << Span(<<"A">>, 18) >>,
      << Span(<<"a">>, 12) >>,
      << Span(<<" ", "a", ".">>, 12) >>,
      << Span(<<"A", " ">>, 12), Span(<<"a", ".">>, 18) >> }

\* line["bbox"]: two neighbouring lines and a distant one, inside every page.
LineBoxes == { <<10, 10, 100, 20>>, <<20, 22, 190, 32>>, <<0, 140, 200, 160>> }

PageLines == { [spans |-> sp, bbox |-> b] : sp \in LineSpans, b \in LineBoxes }

\* (pix.width, pix.height) of a page's raster.
Rasters == { <<200, 300>>, <<300, 400>> }

\* One row of pytesseract's image_to_data on a raster: a blank row, a word, a
\* word of no extent, a word filling the raster.
OcrWords(raster) ==
    { [text |-> <<" ">>, left |-> 0, top |-> 0, width |-> raster[1], height |-> raster[2]],
      [text |-> <<"a">>, left |-> 10, top |-> 20, width |-> 30, height |-> 15],
      [text |-> <<"A">>, left |-> 50, top |-> 60, width |-> 0, height |-> 0],
      [text |-> <<"a", " ">>, left |-> 0, top |-> 0, width |-> raster[1], height |-> raster[2]] }

NoMap == [valid |-> FALSE, sent_start |-> 0, sent_end |-> 0, overlap |-> <<>>]

IdleExtract ==
    /\ e_pc = "idle"
    /\ doc_pages = <<>>
    /\ page_idx = 0
    /\ bulk = <<>>
    /\ indices = <<>>
    /\ seen_lines = <<>>
    /\ n_lines = 0
    /\ sents = <<>>
    /\ results = <<>>
    /\ last_map = NoMap
    /\ ocr_started = FALSE
    /\ pix = <<1, 1>>
    /\ n_words = 0
    /\ gathered = <<>>
    /\ regions = <<>>
    /\ ret_kind = "pending"

\* extract_pdf_regions has opened the document and stands at its first page.
InitExtract ==
    /\ e_pc = "lines"
    /\ doc_pages \in UNION {[1..k -> PageSizes] : k \in 1..MaxPages}
    /\ page_idx = 0
    /\ bulk = <<>>
    /\ indices = <<>>
    /\ seen_lines = <<>>
    /\ n_lines = 0
    /\ sents = <<>>
    /\ results = <<>>
    /\ last_map = NoMap
    /\ ocr_started = FALSE
    /\ pix = <<1, 1>>
    /\ n_words = 0
    /\ gathered = <<>>
    /\ regions = <<>>
    /\ ret_kind = "pending"

\* One pass of the loop over a block's lines (lines 76-106).  A block without
\* "lines" is skipped by line 70 and leaves no trace.  The stored block_bbox is
\* never read and is left out of the index entry.
IndexLine ==
    /\ e_pc = "lines"
    /\ n_lines < MaxLines
    /\ \E line \in PageLines :
          LET sizes == sizes_of(line)
              txt == line_txt(line)
              page_w == doc_pages[page_idx + 1][1]
              page_h == doc_pages[page_idx + 1][2]
          IN  /\ seen_lines' = Append(seen_lines, line)
              /\ IF sizes = <<>> \/ txt = <<>>
                 THEN UNCHANGED <<bulk, indices, results>>
                 ELSE IF is_heading(txt, Max(Range(sizes)))
                 THEN /\ results' = Append(results,
                             heading_region(page_idx, txt, line.bbox, page_w, page_h,
                                            Max(Range(sizes))))
                      /\ UNCHANGED <<bulk, indices>>
                 ELSE /\ bulk' = bulk \o txt \o <<" ">>
                      /\ indices' = Append(indices,
                             <<Len(bulk), Len(bulk \o txt \o <<" ">>), line.bbox>>)
                      /\ UNCHANGED results
    /\ n_lines' = n_lines + 1
    /\ UNCHANGED <<e_pc, doc_pages, page_idx, sents, last_map, ocr_started, pix, n_words,
                   gathered, regions, ret_kind>>
    /\ UNCHANGED <<varsFilter, varsSearch, varsPipe>>

\* The page's blocks are exhausted: sent_tokenize(bulk) of line 111.
Tokenize ==
    /\ e_pc = "lines"
    /\ sents' = sent_tokenize(bulk)
    /\ e_pc' = "sentences"
    /\ UNCHANGED <<doc_pages, page_idx, bulk, indices, seen_lines, n_lines, results,
                   last_map, ocr_started, pix, n_words, gathered, regions, ret_kind>>
    /\ UNCHANGED <<varsFilter, varsSearch, varsPipe>>

\* One pass of the loop over the sentences (lines 111-151).
MapSentence ==
    /\ e_pc = "sentences"
    /\ sents # <<>>
    /\ LET sent == Head(sents)
           sent_start == find(bulk, sent)
           sent_end == sent_start + Len(sent)
           pos == overlap_positions(indices, sent_start, sent_end)
           overlap_bboxes == [j \in DOMAIN pos |-> indices[pos[j]][3]]
           box == sentence_bbox(overlap_bboxes)
       IN  IF sent_start = -1
           THEN /\ last_map' = NoMap
                /\ UNCHANGED results
           ELSE /\ last_map' = [valid |-> TRUE, sent_start |-> sent_start,
                                sent_end |-> sent_end, overlap |-> pos]
                /\ IF box = <<>> THEN UNCHANGED results
                   ELSE results' = Append(results,
                            sentence_region(page_idx, sent, box,
                                            doc_pages[page_idx + 1][1],
                                            doc_pages[page_idx + 1][2]))
    /\ sents' = Tail(sents)
    /\ UNCHANGED <<e_pc, doc_pages, page_idx, bulk, indices, seen_lines, n_lines,
                   ocr_started, pix, n_words, gathered, regions, ret_kind>>
    /\ UNCHANGED <<varsFilter, varsSearch, varsPipe>>

\* The next page of the loop of line 61: bulk and indices start empty.
NextPage ==
    /\ e_pc = "sentences"
    /\ sents = <<>>
    /\ page_idx + 1 < Len(doc_pages)
    /\ page_idx' = page_idx + 1
    /\ bulk' = <<>>
    /\ indices' = <<>>
    /\ seen_lines' = <<>>
    /\ last_map' = NoMap
    /\ e_pc' = "lines"
    /\ UNCHANGED <<doc_pages, n_lines, sents, results, ocr_started, pix, n_words,
                   gathered, regions, ret_kind>>
    /\ UNCHANGED <<varsFilter, varsSearch, varsPipe>>

\* extract_pdf_regions returns; lines 220-231 either return its list or call
\* ocr_fallback_regions.
EndVector ==
    /\ e_pc = "sentences"
    /\ sents = <<>>
    /\ page_idx + 1 = Len(doc_pages)
    /\ regions' = results
    /\ IF no_regions(results)
       THEN /\ ocr_started' = TRUE
            /\ page_idx' = 0
            /\ pix' \in Rasters
            /\ e_pc' = "ocr"
            /\ UNCHANGED ret_kind
       ELSE /\ ret_kind' = "list"
            /\ e_pc' = "done"
            /\ UNCHANGED <<ocr_started, page_idx, pix>>
    \* the locals of extract_pdf_regions go out of scope
    /\ bulk' = <<>>
    /\ indices' = <<>>
    /\ seen_lines' = <<>>
    /\ n_lines' = 0
    /\ last_map' = NoMap
    /\ UNCHANGED <<doc_pages, sents, results, n_words, gathered>>
    /\ UNCHANGED <<varsFilter, varsSearch, varsPipe>>

\* One pass of the loop over the OCR rows of a page (lines 174-211): a blank
\* row is skipped.
OcrWord ==
    /\ e_pc = "ocr"
    /\ page_idx < Len(doc_pages)
    /\ n_words < MaxWords
    /\ \E w \in OcrWords(pix) :
          gathered' = IF strip(w.text) = <<>> THEN gathered
                      ELSE Append(gathered,
                               ocr_region(page_idx, w, doc_pages[page_idx + 1][1],
                                          doc_pages[page_idx + 1][2], pix))
    /\ n_words' = n_words + 1
    /\ UNCHANGED <<e_pc, doc_pages, page_idx, pix, bulk, indices, seen_lines, n_lines,
                   sents, results, last_map, ocr_started, regions, ret_kind>>
    /\ UNCHANGED <<varsFilter, varsSearch, varsPipe>>

\* The page's rows are exhausted: the next page is rasterised (lines 163-170).
OcrNextPage ==
    /\ e_pc = "ocr"
    /\ page_idx < Len(doc_pages)
    /\ page_idx' = page_idx + 1
    /\ IF page_idx + 1 < Len(doc_pages) THEN pix' \in Rasters ELSE UNCHANGED pix
    /\ UNCHANGED <<e_pc, doc_pages, bulk, indices, seen_lines, n_lines, n_words, sents,
                   results, last_map, ocr_started, gathered, regions, ret_kind>>
    /\ UNCHANGED <<varsFilter, varsSearch, varsPipe>>

\* ocr_fallback_regions returns; lines 224-231.
EndOcr ==
    /\ e_pc = "ocr"
    /\ page_idx = Len(doc_pages)
    /\ regions' = gathered
    /\ ret_kind' = IF no_regions(gathered) THEN "None" ELSE "list"
    /\ e_pc' = "done"
    /\ UNCHANGED <<doc_pages, page_idx, bulk, indices, seen_lines, n_lines, sents,
                   results, last_map, ocr_started, pix, n_words, gathered>>
    /\ UNCHANGED <<varsFilter, varsSearch, varsPipe>>

NextExtract == IndexLine \/ Tokenize \/ MapSentence \/ NextPage \/ EndVector
               \/ OcrWord \/ OcrNextPage \/ EndOcr

\* ------------------------------------------------------ the /upload route

\* Concurrent requests (app.run(threaded=True): one thread per request).
NumRequests == 2

\* An uploaded file name: directory part, stem and extension.  "" is the empty
\* file name.
FileName(dir, stem, ext) == [dir |-> dir, stem |-> stem, ext |-> ext]

EmptyName == FileName("", "", "")

FileNames ==
    { FileName("", "a", "pdf"), FileName("../", "a", "pdf"), FileName("", "b", "pdf"),
      FileName("", "a", "txt"), EmptyName }

\* allowed_file(filename): a dot and an extension in ALLOWED_EXTENSIONS.
allowed_file(name) == name.ext = "pdf"

\* werkzeug's secure_filename: directory parts are dropped.
secure_filename(name) == name.stem \o "." \o name.ext

\* filepath = os.path.join(app.config['UPLOAD_FOLDER'], filename)
filepath_of(name) == "uploads/" \o secure_filename(name)

Paths == { filepath_of(n) : n \in {m \in FileNames : allowed_file(m)} }

Region(text) == [page |-> 1, type |-> "sentence", text |-> text]

\* What the two extraction paths yield on a PDF's content: the regions of
\* extract_pdf_regions, those of ocr_fallback_regions, and whether fitz.open
\* raises on it.
Docs ==
    [ mixed      |-> [vec |-> <<Region("t2"), Region("t1")>>, ocr |-> <<>>, broken |-> FALSE],
      offtopic   |-> [vec |-> <<Region("t2")>>, ocr |-> <<>>, broken |-> FALSE],
      scanned    |-> [vec |-> <<>>, ocr |-> <<Region("t1")>>, broken |-> FALSE],
      blank      |-> [vec |-> <<>>, ocr |-> <<>>, broken |-> FALSE],
      corrupt    |-> [vec |-> <<>>, ocr |-> <<>>, broken |-> TRUE] ]

DocIds == DOMAIN Docs

\* The embedding model loaded at start-up: "t1" is close to an ESG keyword, "t2"
\* is just below the threshold or just reaches it.
Embedders ==
    { [t \in Texts |-> IF t = "t1" THEN SimRow(7, 90, 40) ELSE row] :
        row \in {SimRow(1, 39, 10), SimRow(13, 40, -5)} }

NoData == [kind |-> "None", regions |-> <<>>]

ListData(rs) == [kind |-> "list", regions |-> rs]

Response(status, body, error) == [status |-> status, body |-> body, error |-> error]

NoResponse == Response(0, <<>>, "")

\* run_semantic_search on a list of dicts, as the list of dicts it returns.
search_values(rs, emb, kws, thr) ==
    LET out == run_semantic_search(rs, [i \in DOMAIN rs |-> i], emb, kws, thr)
    IN  Deref(out.heap, out.results)

\* A slip: the emptiness check of line 90 left out.
no_content_unchecked(extracted_data) == FALSE

\* "if not extracted_data" of line 90: None or an empty list.
no_content(extracted_data) == extracted_data.kind = "None" \/ extracted_data.regions = <<>>

\* Lines 90-99 of upload_pdf.
respond(extracted_data, emb, kws, thr) ==
    IF no_content(extracted_data)
    THEN Response(400, <<>>, "No text found in the PDF")
    ELSE Response(200, search_values(extracted_data.regions, emb, kws, thr), "")

\* Lines 101-103: any exception becomes one 500 response.
error_response == Response(500, <<>>, "Error processing PDF")

IdleRequest ==
    [pc |-> "idle", name |-> EmptyName, doc |-> "blank", has_file |-> FALSE,
     extracted_data |-> NoData, response |-> NoResponse]

IdlePipe ==
    /\ req = <<>>
    /\ fs = <<>>

\* The module is loaded: semantic_search = SemanticSearchESG(similarity_threshold
\* = 0.4), the upload folder holds no file, no request has arrived.
InitPipe ==
    /\ req = [r \in 1..NumRequests |-> IdleRequest]
    /\ fs = [p \in Paths |-> "absent"]
    /\ embedder \in Embedders
    /\ keyword_embeddings = [k \in 1..NumKeywords |-> k]
    /\ threshold = similarity_threshold

\* Lines 67-85: the request is validated and the upload saved under its secured
\* name.  A request without a file part, with an empty or a non-PDF name ends
\* with a 400.  pdf_file.save is taken as one step: a reader sees the old or the
\* new content of the path, never a half-written file.
Receive(r) ==
    /\ req[r].pc = "idle"
    /\ \E has_file \in BOOLEAN, name \in FileNames, doc \in DocIds :
          /\ has_file \/ (name = EmptyName /\ doc = "blank")
          /\ IF ~has_file
             THEN /\ req' = [req EXCEPT ![r] = [@ EXCEPT !.pc = "done",
                              !.response = Response(400, <<>>, "No file uploaded")]]
                  /\ UNCHANGED fs
             ELSE IF name = EmptyName
             THEN /\ req' = [req EXCEPT ![r] = [@ EXCEPT !.pc = "done", !.has_file = TRUE,
                              !.response = Response(400, <<>>, "No file selected")]]
                  /\ UNCHANGED fs
             ELSE IF ~allowed_file(name)
             THEN /\ req' = [req EXCEPT ![r] = [@ EXCEPT !.pc = "done", !.has_file = TRUE,
                              !.name = name,
                              !.response = Response(400, <<>>, "Only PDF files are allowed")]]
                  /\ UNCHANGED fs
             ELSE /\ req' = [req EXCEPT ![r] = [@ EXCEPT !.pc = "saved", !.has_file = TRUE,
                              !.name = name, !.doc = doc]]
                  /\ fs' = [fs EXCEPT ![filepath_of(name)] = doc]
    /\ UNCHANGED <<embedder, keyword_embeddings, threshold>>
    /\ UNCHANGED <<s_pc, heap, extracted_chunks, s_input, s_results, s_first>>
    /\ UNCHANGED <<varsFilter, varsExtract>>

\* Line 88 up to the return of extract_pdf_regions, which opens the file at the
\* request's path; when it yields regions the rest of the handler (lines 90-99)
\* touches nothing shared and is taken in the same step.
ExtractVector(r) ==
    /\ req[r].pc = "saved"
    /\ LET content == Docs[fs[filepath_of(req[r].name)]]
       IN  IF content.broken
           THEN req' = [req EXCEPT ![r] = [@ EXCEPT !.pc = "done",
                           !.response = error_response]]
           ELSE IF no_regions(content.vec)
           THEN req' = [req EXCEPT ![r] = [@ EXCEPT !.pc = "ocr"]]
           ELSE req' = [req EXCEPT ![r] = [@ EXCEPT !.pc = "done",
                           !.extracted_data = ListData(content.vec),
                           !.response = respond(ListData(content.vec), embedder,
                                                keyword_embeddings, threshold)]]
    /\ UNCHANGED <<fs, embedder, keyword_embeddings, threshold>>
    /\ UNCHANGED <<s_pc, heap, extracted_chunks, s_input, s_results, s_first>>
    /\ UNCHANGED <<varsFilter, varsExtract>>

\* ocr_fallback_regions opens the file at the request's path again; lines 225-231
\* and 90-99 follow in the same step.
OcrFallback(r) ==
    /\ req[r].pc = "ocr"
    /\ LET content == Docs[fs[filepath_of(req[r].name)]]
           data == IF no_regions(content.ocr) THEN NoData ELSE ListData(content.ocr)
       IN  IF content.broken
           THEN req' = [req EXCEPT ![r] = [@ EXCEPT !.pc = "done",
                           !.response = error_response]]
           ELSE req' = [req EXCEPT ![r] = [@ EXCEPT !.pc = "done",
                           !.extracted_data = data,
                           !.response = respond(data, embedder, keyword_embeddings,
                                                threshold)]]
    /\ UNCHANGED <<fs, embedder, keyword_embeddings, threshold>>
    /\ UNCHANGED <<s_pc, heap, extracted_chunks, s_input, s_results, s_first>>
    /\ UNCHANGED <<varsFilter, varsExtract>>

Next ==
    \E r \in 1..NumRequests : Receive(r) \/ ExtractVector(r) \/ OcrFallback(r)

\* ------------------------------------------- claims on the spatial filter

\* The k-th smallest value of a non-empty sequence of numbers (k in 1..Len).
KthSmallest(q, k) ==
    CHOOSE v \in Range(q) :
        /\ Cardinality({i \in DOMAIN q : q[i] < v}) < k
        /\ Cardinality({i \in DOMAIN q : q[i] <= v}) >= k

\* sub is q restricted to some of its positions, in q's order.
IsSubList(sub, q) ==
    \E f \in [DOMAIN sub -> DOMAIN q] :
        /\ \A i, j \in DOMAIN sub : i < j => f[i] < f[j]
        /\ \A i \in DOMAIN sub : sub[i] = q[f[i]]

\* u is the min/max union of the boxes of bs.
IsUnionBox(u, bs) ==
    /\ \A i \in DOMAIN bs :
          u[1] <= bs[i][1] /\ u[2] <= bs[i][2] /\ u[3] >= bs[i][3] /\ u[4] >= bs[i][4]
    /\ \A c \in 1..4 : \E i \in DOMAIN bs : u[c] = bs[i][c]

\* Four times the statistical median of the vertical centres: twice the middle
\* doubled centre for an odd count, the sum of the two middle ones for an even
\* count.
StatMedian4(bs) ==
    LET c2 == y_positions(bs)
        n == Len(bs)
    IN  IF n % 2 = 1 THEN 2 * KthSmallest(c2, (n + 1) \div 2)
        ELSE KthSmallest(c2, n \div 2) + KthSmallest(c2, (n \div 2) + 1)

\* The boxes strictly less than 50 points from the statistical median.
KeptByStatMedian(bs) ==
    SelectSeq(bs, LAMBDA b : Abs(2 * (b[2] + b[4]) - StatMedian4(bs)) < 4 * 50)

\* The boxes strictly less than 50 points from the upper median, the
\* (n div 2 + 1)-th smallest centre.
KeptByUpperMedian(bs) ==
    SelectSeq(bs, LAMBDA b :
        Abs((b[2] + b[4]) - KthSmallest(y_positions(bs), (Len(bs) \div 2) + 1)) < 2 * 50)

\* C5 as stated: for two or more candidates the filter retains exactly the boxes
\* whose vertical centre is strictly less than 50 points from the statistical
\* median of the centres (mean of the two middle values for an even count), the
\* unfiltered list if none qualifies, and the sentence box is the union of the
\* retained boxes.
C5_StatisticalMedian ==
    (f_pc \in {"filtered", "merged"} /\ Len(f_bboxes) >= 2) =>
        LET kept == KeptByStatMedian(f_bboxes)
            expect == IF kept # <<>> THEN kept ELSE f_bboxes
        IN  /\ f_result = expect
            /\ f_pc = "merged" => IsUnionBox(f_merged, expect)

\* C5 amended: the same with the upper median (the element at index len // 2 of
\* the sorted centres: the middle value for an odd count, the larger of the two
\* middle values for an even count) in place of the statistical median.
C5_UpperMedian ==
    (f_pc \in {"filtered", "merged"} /\ Len(f_bboxes) >= 2) =>
        LET kept == KeptByUpperMedian(f_bboxes)
            expect == IF kept # <<>> THEN kept ELSE f_bboxes
        IN  /\ f_result = expect
            /\ f_pc = "merged" => IsUnionBox(f_merged, expect)

\* An even number of candidates was filtered and merged, the upper and the
\* statistical median keep different boxes, and a box was dropped.
C5_Witness ==
    /\ f_pc = "merged"
    /\ Len(f_bboxes) = 2
    /\ Len(f_result) = 1
    /\ KeptByStatMedian(f_bboxes) # KeptByUpperMedian(f_bboxes)

\* C6: for every non-empty candidate list the filter returns a non-empty
\* sub-list of its input, the single box unchanged when there is exactly one,
\* and the sentence gets exactly one merged box.
C6_NeverEmpty ==
    (f_pc \in {"filtered", "merged"} /\ f_bboxes # <<>>) =>
        /\ f_result # <<>>
        /\ IsSubList(f_result, f_bboxes)
        /\ Len(f_bboxes) = 1 => f_result = f_bboxes
        /\ f_pc = "merged" => (Len(f_merged) = 4 /\ IsUnionBox(f_merged, f_result))

\* A single candidate went through the filter and the merge.
C6_Witness ==
    /\ f_pc = "merged"
    /\ Len(f_bboxes) = 1
    /\ f_merged = f_bboxes[1]

\* ------------------------------------------------ claims on the scorer

\* The positions of the input whose best keyword similarity reaches thr.
Retained(input, emb, thr) ==
    {i \in DOMAIN input : \E k \in 1..NumKeywords : emb[input[i]["text"]][k] >= thr}

\* v is the largest similarity of the text to any keyword.
IsBestSim(v, text, emb) ==
    /\ \E k \in 1..NumKeywords : emb[text][k] = v
    /\ \A k \in 1..NumKeywords : emb[text][k] <= v

\* out is the input dict with the one added key "similarity".
IsAugmented(out, in) ==
    /\ DOMAIN out = DOMAIN in \cup {"similarity"}
    /\ \A key \in DOMAIN in : out[key] = in[key]

\* C7: the result is the input restricted, in order, to the Regions whose best
\* similarity is >= the threshold, each a copy with the added similarity; the
\* input list, its Regions and the keyword embeddings are unchanged.
C7_StableFilter ==
    /\ extracted_chunks = [i \in DOMAIN s_input |-> i]
    /\ Deref(heap, extracted_chunks) = s_input
    /\ keyword_embeddings = [k \in 1..NumKeywords |-> k]
    /\ s_pc = "done" =>
        LET out == Deref(heap, s_results)
            keep == Retained(s_input, embedder, threshold)
        IN  /\ Len(out) = Cardinality(keep)
            /\ Range(s_results) \cap Range(extracted_chunks) = {}
            /\ \E f \in [DOMAIN out -> keep] :
                  /\ \A i, j \in DOMAIN out : i < j => f[i] < f[j]
                  /\ \A j \in DOMAIN out :
                        /\ IsAugmented(out[j], s_input[f[j]])
                        /\ IsBestSim(out[j]["similarity"], s_input[f[j]]["text"], embedder)
                        /\ out[j]["similarity"] >= threshold

\* A search ended that retained some Regions and dropped others.
C7_Witness ==
    /\ s_pc = "done"
    /\ Len(s_results) > 0
    /\ Len(s_results) < Len(extracted_chunks)

\* C8: with the input and the embeddings fixed, the Regions retained at the
\* higher of two thresholds are among those retained at the lower one, and are
\* no more numerous.
C8_ThresholdMonotone ==
    (s_pc = "done" /\ s_first.set) =>
        LET lo == IF s_first.threshold <= threshold THEN s_first.results
                  ELSE Deref(heap, s_results)
            hi == IF s_first.threshold <= threshold THEN Deref(heap, s_results)
                  ELSE s_first.results
        IN  /\ Range(hi) \subseteq Range(lo)
            /\ Len(hi) <= Len(lo)

\* Two searches ended, the second at a higher threshold and with fewer, but
\* some, Regions.
C8_Witness ==
    /\ s_pc = "done"
    /\ s_first.set
    /\ s_first.threshold < threshold
    /\ Len(s_results) > 0
    /\ Len(s_results) < Len(s_first.results)

\* ------------------------------------------------ claims on extraction

\* C2: the OCR fallback runs if and only if the vector path produced no Region
\* of any kind, and only after the vector path has finished; a non-empty vector
\* list is returned as it is, without OCR; when both paths produce nothing the
\* result is None, never an empty list.
C2_OcrIffNoVectorRegions ==
    /\ e_pc \in {"lines", "sentences"} => (~ocr_started /\ gathered = <<>>)
    /\ e_pc \in {"ocr", "done"} => (ocr_started <=> results = <<>>)
    /\ ~ocr_started => gathered = <<>>
    /\ ret_kind = "list" => regions # <<>>
    /\ e_pc = "done" =>
          IF results # <<>> THEN ret_kind = "list" /\ regions = results
          ELSE IF gathered # <<>> THEN ret_kind = "list" /\ regions = gathered
          ELSE ret_kind = "None"

\* Both paths ran and found nothing: the pipeline returned None.
C2_Witness ==
    /\ e_pc = "done"
    /\ ocr_started
    /\ results = <<>>
    /\ gathered = <<>>
    /\ ret_kind = "None"

\* A vector-path Region's box is well-formed and inside its page.
BoxInsidePage(r) ==
    /\ r.coords.x0 <= r.coords.x1
    /\ r.coords.y0 <= r.coords.y1
    /\ 0 <= r.coords.x0 /\ r.coords.x0 <= r.page_dimensions.width
    /\ 0 <= r.coords.x1 /\ r.coords.x1 <= r.page_dimensions.width
    /\ 0 <= r.coords.y0 /\ r.coords.y0 <= r.page_dimensions.height
    /\ 0 <= r.coords.y1 /\ r.coords.y1 <= r.page_dimensions.height

\* The same for an OCR Region, whose coordinates are fractions.
FracBoxInsidePage(r) ==
    LET zero == Frac(0, 1)
        w == Frac(r.page_dimensions.width, 1)
        h == Frac(r.page_dimensions.height, 1)
    IN  /\ FracLeq(r.coords.x0, r.coords.x1)
        /\ FracLeq(r.coords.y0, r.coords.y1)
        /\ FracLeq(zero, r.coords.x0) /\ FracLeq(r.coords.x0, w)
        /\ FracLeq(zero, r.coords.x1) /\ FracLeq(r.coords.x1, w)
        /\ FracLeq(zero, r.coords.y0) /\ FracLeq(r.coords.y0, h)
        /\ FracLeq(zero, r.coords.y1) /\ FracLeq(r.coords.y1, h)

\* C4: every Region of either path has x0 <= x1, y0 <= y1 and lies inside its
\* page (the line boxes and OCR rows drawn are well-formed and inside the page
\* and the raster).
C4_BoxesInsidePage ==
    /\ \A i \in DOMAIN results : BoxInsidePage(results[i])
    /\ \A i \in DOMAIN gathered : FracBoxInsidePage(gathered[i])
    /\ \A i \in DOMAIN regions :
          IF ocr_started THEN FracBoxInsidePage(regions[i]) ELSE BoxInsidePage(regions[i])

\* The OCR path returned a word that fills its raster: its box reaches the page's
\* right edge and its bottom.
C4_Witness ==
    /\ e_pc = "done"
    /\ ocr_started
    /\ ret_kind = "list"
    /\ \E i \in DOMAIN regions :
          /\ regions[i].coords.x1.n = regions[i].page_dimensions.width * regions[i].coords.x1.d
          /\ regions[i].coords.y0.n = 0
          /\ regions[i].coords.y1.n > 0

\* C9 as stated: a line is collected for a sentence if and only if its range
\* [start, end) and the sentence's range [sent_start, sent_end) share a
\* character position.
C9_HalfOpenOverlap ==
    (e_pc = "sentences" /\ last_map.valid) =>
        \A i \in DOMAIN indices :
            (i \in Range(last_map.overlap)) <=>
                (\E c \in 0..Len(bulk) :
                    /\ indices[i][1] <= c /\ c < indices[i][2]
                    /\ last_map.sent_start <= c /\ c < last_map.sent_end)

\* The line has a span with text other than white space.
HasText(line) ==
    \E i \in DOMAIN line.spans : \E j \in DOMAIN line.spans[i].text :
        line.spans[i].text[j] # " "

\* The line's text is fully upper-case and its largest non-blank span exceeds
\* 16 points.
IsHeadingLine(line) ==
    /\ \E i \in DOMAIN line.spans : \E j \in DOMAIN line.spans[i].text :
          line.spans[i].text[j] = "A"
    /\ \A i \in DOMAIN line.spans : \A j \in DOMAIN line.spans[i].text :
          line.spans[i].text[j] # "a"
    /\ \E i \in DOMAIN line.spans :
          /\ \E j \in DOMAIN line.spans[i].text : line.spans[i].text[j] # " "
          /\ line.spans[i].size > 16

IsFlowLine(line) == HasText(line) /\ ~IsHeadingLine(line)

\* C10: on every page, after any sequence of lines, the index tiles the buffer
\* (first start 0, each start the previous end, last end the buffer length), each
\* range holds its line's joined text and one space, heading and blank lines add
\* nothing to buffer or index, and each heading line gave one Heading Region.
C10_IndexTilesBuffer ==
    e_pc \in {"lines", "sentences"} =>
        LET flow == SelectSeq(seen_lines, IsFlowLine)
            heads == SelectSeq(seen_lines, IsHeadingLine)
            emitted == SelectSeq(results,
                          LAMBDA r : r.page = page_idx + 1 /\ r.type = "heading")
        IN  /\ Len(indices) = Len(flow)
            /\ indices = <<>> => bulk = <<>>
            /\ indices # <<>> =>
                  (indices[1][1] = 0 /\ indices[Len(indices)][2] = Len(bulk))
            /\ \A i \in DOMAIN indices :
                  /\ i > 1 => indices[i][1] = indices[i - 1][2]
                  /\ indices[i][3] = flow[i].bbox
                  /\ SubSeq(bulk, indices[i][1] + 1, indices[i][2])
                        = line_txt(flow[i]) \o <<" ">>
            /\ Len(emitted) = Len(heads)
            /\ \A i \in DOMAIN emitted :
                  /\ emitted[i].text = line_txt(heads[i])
                  /\ emitted[i].coords.x0 = heads[i].bbox[1]
                  /\ emitted[i].coords.y0 = heads[i].bbox[2]
                  /\ emitted[i].coords.x1 = heads[i].bbox[3]
                  /\ emitted[i].coords.y1 = heads[i].bbox[4]

\* Two flow lines were indexed on one page, the second starting where the first
\* ends.
C10_Witness ==
    /\ e_pc = "lines"
    /\ Len(indices) = 2
    /\ indices[1][2] > 0
    /\ indices[2][1] = indices[1][2]
    /\ indices[2][2] = Len(bulk)

\* ------------------------------------------------- claims on the pipeline

\* Request r passed the validation of lines 67-78 and ran the pipeline to its
\* response.
RanPipeline(r) ==
    /\ req[r].pc = "done"
    /\ req[r].has_file
    /\ req[r].name # EmptyName
    /\ allowed_file(req[r].name)

\* body is rs restricted, in order, to the Regions that reach the threshold, each
\* with its best similarity added.
IsScoredFilter(body, rs, emb, thr) ==
    /\ Len(body) = Cardinality(Retained(rs, emb, thr))
    /\ \E f \in [DOMAIN body -> Retained(rs, emb, thr)] :
          /\ \A i, j \in DOMAIN body : i < j => f[i] < f[j]
          /\ \A j \in DOMAIN body :
                /\ IsAugmented(body[j], rs[f[j]])
                /\ IsBestSim(body[j]["similarity"], rs[f[j]]["text"], emb)
                /\ body[j]["similarity"] >= thr

\* C1 as stated: every pipeline invocation ends with a non-empty sequence of
\* ScoredRegion, the no-content signal or one fatal error, never with an empty
\* sequence.
C1_NeverEmptySequence ==
    \A r \in DOMAIN req : RanPipeline(r) =>
        \/ req[r].response.status = 200 /\ req[r].response.body # <<>>
        \/ req[r].response.status = 400
              /\ req[r].response.error = "No text found in the PDF"
        \/ req[r].response.status = 500

\* C1 amended: every pipeline invocation ends with exactly one of: the ordered
\* sequence of the extracted Regions that reach the threshold, each scored (empty
\* when extraction yields Regions of which none reaches it), the no-content
\* signal (extraction yielded nothing), or one fatal error.
C1_Outcomes ==
    \A r \in DOMAIN req : RanPipeline(r) =>
        \/ /\ req[r].response.status = 200
           /\ req[r].response.error = ""
           /\ req[r].extracted_data.kind = "list"
           /\ req[r].extracted_data.regions # <<>>
           /\ IsScoredFilter(req[r].response.body, req[r].extracted_data.regions,
                             embedder, threshold)
        \/ /\ req[r].response.status = 400
           /\ req[r].response.error = "No text found in the PDF"
           /\ req[r].response.body = <<>>
           /\ req[r].extracted_data = NoData
        \/ /\ req[r].response.status = 500
           /\ req[r].response.error = "Error processing PDF"
           /\ req[r].response.body = <<>>

\* A request whose document yielded Regions, none of them relevant, was answered
\* 200 with an empty list.
C1_Witness ==
    \E r \in DOMAIN req :
        /\ RanPipeline(r)
        /\ req[r].response.status = 200
        /\ req[r].response.body = <<>>
        /\ req[r].extracted_data.regions # <<>>

\* The response of the pipeline run alone on document d.
ResponseFor(d, emb, kws, thr) ==
    LET c == Docs[d]
        rs == IF c.vec # <<>> THEN c.vec ELSE c.ocr
    IN  IF c.broken THEN Response(500, <<>>, "Error processing PDF")
        ELSE IF rs = <<>> THEN Response(400, <<>>, "No text found in the PDF")
        ELSE Response(200, search_values(rs, emb, kws, thr), "")

\* C3: under any interleaving of the requests, each request's response is the one
\* computed from the document that request uploaded; the embedding model and the
\* keyword vectors are only read.
C3_OwnDocument ==
    /\ keyword_embeddings = [k \in 1..NumKeywords |-> k]
    /\ threshold = similarity_threshold
    /\ \A r \in DOMAIN req : RanPipeline(r) =>
          req[r].response = ResponseFor(req[r].doc, embedder, keyword_embeddings,
                                        threshold)

\* ---------------------------------------------------------- specifications

InitSpecFilter == InitFilter /\ IdleSearch /\ IdleExtract /\ IdlePipe

SpecFilter == InitSpecFilter /\ [][NextFilter]_vars

InitSpecSearch == InitSearch /\ IdleFilter /\ IdleExtract /\ IdlePipe

SpecSearch == InitSpecSearch /\ [][NextSearch]_vars

InitSpecExtract == InitExtract /\ IdleFilter /\ IdleSearch /\ IdlePipe

SpecExtract == InitSpecExtract /\ [][NextExtract]_vars

Init == InitPipe /\ IdleSearchCall /\ IdleFilter /\ IdleExtract

Spec == Init /\ [][Next]_vars

====
